---- MODULE Spec2Model ----
(***************************************************************************)
(* Model of the data layer of index.js: the maps and accounts tables of    *)
(* the SQLite store (with their constraints), the statements that create   *)
(* and migrate the schema when the process starts, the repository          *)
(* functions that write and list the tables, the bulk importer, and the    *)
(* panel / web handlers that carry a map id from one request to the next.  *)
(*                                                                         *)
(* Text is a sequence of one-character strings.  SQL NULL is the value     *)
(* NULL below, which no text equals.  An error message is the sequence of  *)
(* its words, so that String.includes(word) is membership.                 *)
(***************************************************************************)
EXTENDS Integers, Sequences, FiniteSets, TLC

\* ------------------------------------------------------------------ bounds
MaxMapId  == 2      \* map ids handed out by AUTOINCREMENT in a run
MaxAccId  == 2      \* account ids handed out by AUTOINCREMENT in a run
MaxLines  == 4      \* lines of the text of a bulk call made on its own
MaxLen    == 4      \* length of a text given to parsePair on its own

\* ------------------------------------------------------------------ text
NULL == <<"NULL">>

\* String.prototype.trim strips these (the ones the inputs below use)
WhiteSpace == {" ", "\t", "\r", "\n"}

RECURSIVE trimStart(_)
trimStart(s) ==
    IF s # <<>> /\ Head(s) \in WhiteSpace THEN trimStart(Tail(s)) ELSE s

RECURSIVE trimEnd(_)
trimEnd(s) ==
    IF s # <<>> /\ s[Len(s)] \in WhiteSpace
    THEN trimEnd(SubSeq(s, 1, Len(s) - 1)) ELSE s

trim(s) == trimEnd(trimStart(s))

\* s.indexOf(c): 0-based position of the first c, -1 when there is none
indexOf(s, c) ==
    IF \E i \in 1..Len(s) : s[i] = c
    THEN (CHOOSE i \in 1..Len(s) : s[i] = c /\ \A j \in 1..(i - 1) : s[j] # c) - 1
    ELSE -1

\* s.slice(from, to) with 0 <= from, to <= s.length
slice(s, from, to) == SubSeq(s, from + 1, to)

\* COLLATE NOCASE folds the upper case letters to lower case
UpperCase == <<"A", "B", "C", "L">>
LowerCase == <<"a", "b", "c", "l">>
foldChar(c) ==
    IF \E i \in 1..Len(UpperCase) : UpperCase[i] = c
    THEN LowerCase[CHOOSE i \in 1..Len(UpperCase) : UpperCase[i] = c]
    ELSE c
nocase(s) == [i \in 1..Len(s) |-> foldChar(s[i])]

\* the byte of a character, for the characters the inputs below use
CodePoint(c) ==
    CASE c = "\t" -> 9   [] c = "\n" -> 10  [] c = "\r" -> 13  [] c = " " -> 32
      [] c = "1" -> 49   [] c = "2" -> 50   [] c = "9" -> 57   [] c = ":" -> 58
      [] c = "A" -> 65   [] c = "B" -> 66   [] c = "C" -> 67   [] c = "L" -> 76
      [] c = "a" -> 97   [] c = "b" -> 98   [] c = "c" -> 99   [] c = "d" -> 100
      [] c = "l" -> 108  [] c = "m" -> 109  [] c = "x" -> 120

\* the BINARY collation: memcmp over the common length, then the shorter first
RECURSIVE compareBinary(_, _)
compareBinary(s, t) ==
    IF s = <<>> THEN (IF t = <<>> THEN 0 ELSE -1)
    ELSE IF t = <<>> THEN 1
    ELSE IF CodePoint(Head(s)) < CodePoint(Head(t)) THEN -1
    ELSE IF CodePoint(Head(s)) > CodePoint(Head(t)) THEN 1
    ELSE compareBinary(Tail(s), Tail(t))

\* the NOCASE collation: the same over the folded texts
compareNocase(s, t) == compareBinary(nocase(s), nocase(t))

\* ORDER BY ... ASC over values that may be NULL: NULL sorts first
orderedBinary(v, w) ==
    IF v = NULL THEN TRUE ELSE IF w = NULL THEN FALSE ELSE compareBinary(v, w) <= 0
orderedNocase(v, w) ==
    IF v = NULL THEN TRUE ELSE IF w = NULL THEN FALSE ELSE compareNocase(v, w) <= 0

\* e.message.includes(w)
includes(msg, w) == \E i \in 1..Len(msg) : msg[i] = w

\* ------------------------------------------------------------------ errors
NoError      == <<>>
UniqueMaps   == <<"UNIQUE", "constraint", "failed:", "maps.name">>
UniqueLogin  == <<"UNIQUE", "constraint", "failed:", "accounts.login,", "accounts.map_id">>
ForeignKey   == <<"FOREIGN", "KEY", "constraint", "failed">>
FormatError  == <<"Use", "format", "USERNAME_OR_EMAIL:PASSWORD">>
RequiredError == <<"Both", "login", "and", "password", "are", "required">>
CommitError  == <<"disk", "I/O", "error">>

\* ------------------------------------------------------------------ state
VARIABLES
    maps,          \* rows of table maps: [id, name]
    accounts,      \* rows of table accounts: [id, name, map_id, data, login, password, label]
    seqMaps,       \* sqlite_sequence of maps: the largest id ever assigned
    seqAccounts,   \* sqlite_sequence of accounts
    modal,         \* map id embedded in the open acc:add modal, 0 when none is open
    last,          \* the call served last and what it gave back to its caller
    parsed,        \* the last parsePair call made on its own: input and outcome
    pending,       \* the arguments of the bulk call made on its own
    schema         \* what accounts.sqlite has: tables, added columns, the index

vars == <<maps, accounts, seqMaps, seqAccounts, modal, last, parsed, pending, schema>>

MapIds == {m.id : m \in maps}

\* ------------------------------------------------------------------ tables
\* INSERT INTO maps (name): name TEXT NOT NULL UNIQUE COLLATE NOCASE,
\* id INTEGER PRIMARY KEY AUTOINCREMENT
insertMap_binary(ms, seq, name) ==
    IF \E m \in ms : m.name = name
    THEN [error |-> UniqueMaps, maps |-> ms, seq |-> seq]
    ELSE [error |-> NoError,
          maps  |-> ms \cup {[id |-> seq + 1, name |-> name]},
          seq   |-> seq + 1]

\* without AUTOINCREMENT: one more than the largest id in the table
insertMap_rowid(ms, seq, name) ==
    LET id == 1 + (IF ms = {} THEN 0
                   ELSE CHOOSE i \in {m.id : m \in ms} : \A m \in ms : m.id <= i)
    IN  IF \E m \in ms : nocase(m.name) = nocase(name)
        THEN [error |-> UniqueMaps, maps |-> ms, seq |-> seq]
        ELSE [error |-> NoError, maps |-> ms \cup {[id |-> id, name |-> name]},
              seq |-> id]

insertMap(ms, seq, name) ==
    IF \E m \in ms : nocase(m.name) = nocase(name)
    THEN [error |-> UniqueMaps, maps |-> ms, seq |-> seq]
    ELSE [error |-> NoError,
          maps  |-> ms \cup {[id |-> seq + 1, name |-> name]},
          seq   |-> seq + 1]

\* DELETE FROM maps WHERE id = ? with foreign_keys = ON and
\* FOREIGN KEY (map_id) REFERENCES maps(id) ON DELETE CASCADE
deleteMapCascade_noCascade(ms, accs, id) ==
    [maps     |-> {m \in ms : m.id # id},
     accounts |-> accs,
     changes  |-> Cardinality({m \in ms : m.id = id})]

deleteMapCascade(ms, accs, id) ==
    [maps     |-> {m \in ms : m.id # id},
     accounts |-> {a \in accs : a.map_id # id},
     changes  |-> Cardinality({m \in ms : m.id = id})]

\* INSERT INTO accounts (login, password, label, map_id, name, data) under
\* idx_accounts_login_map ON accounts(login, map_id) WHERE login IS NOT NULL
\* (login is declared TEXT, so the index compares it byte for byte) and the
\* foreign key on map_id
NewAccount(seq, login, password, label, mapId, name, data) ==
    [id |-> seq + 1, name |-> name, map_id |-> mapId, data |-> data,
     login |-> login, password |-> password, label |-> label]

insertAccount_nocase(ms, accs, seq, login, password, label, mapId, name, data) ==
    IF login # NULL /\ \E a \in accs : a.login # NULL /\ nocase(a.login) = nocase(login)
                                        /\ a.map_id = mapId
    THEN [error |-> UniqueLogin, accounts |-> accs, seq |-> seq]
    ELSE IF mapId \notin {m.id : m \in ms}
    THEN [error |-> ForeignKey, accounts |-> accs, seq |-> seq]
    ELSE [error |-> NoError, seq |-> seq + 1,
          accounts |-> accs \cup {NewAccount(seq, login, password, label, mapId, name, data)}]

insertAccount_loginOnly(ms, accs, seq, login, password, label, mapId, name, data) ==
    IF login # NULL /\ \E a \in accs : a.login = login
    THEN [error |-> UniqueLogin, accounts |-> accs, seq |-> seq]
    ELSE IF mapId \notin {m.id : m \in ms}
    THEN [error |-> ForeignKey, accounts |-> accs, seq |-> seq]
    ELSE [error |-> NoError, seq |-> seq + 1,
          accounts |-> accs \cup {NewAccount(seq, login, password, label, mapId, name, data)}]

insertAccount_noForeignKey(ms, accs, seq, login, password, label, mapId, name, data) ==
    IF login # NULL /\ \E a \in accs : a.login = login /\ a.map_id = mapId
    THEN [error |-> UniqueLogin, accounts |-> accs, seq |-> seq]
    ELSE [error |-> NoError, seq |-> seq + 1,
          accounts |-> accs \cup {NewAccount(seq, login, password, label, mapId, name, data)}]

insertAccount(ms, accs, seq, login, password, label, mapId, name, data) ==
    IF login # NULL /\ \E a \in accs : a.login = login /\ a.map_id = mapId
    THEN [error |-> UniqueLogin, accounts |-> accs, seq |-> seq]
    ELSE IF mapId \notin {m.id : m \in ms}
    THEN [error |-> ForeignKey, accounts |-> accs, seq |-> seq]
    ELSE [error |-> NoError, seq |-> seq + 1,
          accounts |-> accs \cup {NewAccount(seq, login, password, label, mapId, name, data)}]

\* ------------------------------------------------------------------ schema
\* the columns the migration adds to accounts, in the order it tests them
ModernColumns == <<"login", "password", "label">>
NoSchema      == [tables |-> {}, columns |-> {}, index |-> FALSE]
CurrentSchema == [tables |-> {"maps", "accounts"},
                  columns |-> {"login", "password", "label"}, index |-> TRUE]
DuplicateColumn == <<"duplicate", "column", "name">>
IndexFailed     == <<"UNIQUE", "constraint", "failed:", "accounts.login,", "accounts.map_id">>

\* CREATE TABLE IF NOT EXISTS: a table that is there is left as it is; the
\* accounts table is created with the legacy columns only
createTables(db) ==
    [db EXCEPT !.schema.tables = @ \cup {"maps", "accounts"},
               !.changes = @ + Cardinality({"maps", "accounts"} \ db.schema.tables)]

\* ALTER TABLE accounts ADD COLUMN c TEXT: every row gets NULL in c
addColumn(db, c) ==
    IF c \in db.schema.columns
    THEN [db EXCEPT !.error = DuplicateColumn]
    ELSE [db EXCEPT !.schema.columns = @ \cup {c},
                    !.accounts = {[f \in DOMAIN a \cup {c} |->
                                     IF f \in DOMAIN a THEN a[f] ELSE NULL] : a \in @},
                    !.changes = @ + 1]

hasColumn(db, c) == c \in db.schema.columns

migrateColumn_unguarded(db, c) ==
    IF db.error # NoError THEN db ELSE addColumn(db, c)

\* if (!hasColumn('accounts', c)) db.exec(ALTER TABLE ...); a statement that
\* throws ends the start of the process
migrateColumn(db, c) ==
    IF db.error # NoError \/ hasColumn(db, c) THEN db ELSE addColumn(db, c)

\* CREATE UNIQUE INDEX IF NOT EXISTS idx_accounts_login_map
\* ON accounts(login, map_id) WHERE login IS NOT NULL
createIndex(db) ==
    IF db.error # NoError \/ db.schema.index THEN db
    ELSE IF \E a, b \in db.accounts :
               a.id # b.id /\ a.login # NULL /\ a.login = b.login /\ a.map_id = b.map_id
    THEN [db EXCEPT !.error = IndexFailed]
    ELSE [db EXCEPT !.schema.index = TRUE, !.changes = @ + 1]

\* the statements run when the module is loaded, db = [schema, maps, accounts,
\* error, changes]: changes counts the statements that altered the schema
startup(db) ==
    createIndex(migrateColumn(migrateColumn(migrateColumn(createTables(db),
        ModernColumns[1]), ModernColumns[2]), ModernColumns[3]))

\* ------------------------------------------------------------------ repository
\* label || null, label || login: the empty string and null are falsy
orNull(label)       == IF label = NULL \/ label = <<>> THEN NULL ELSE label
orElse(label, dflt) == IF label = NULL \/ label = <<>> THEN dflt ELSE label

\* s.lastIndexOf(c)
lastIndexOf(s, c) ==
    IF \E i \in 1..Len(s) : s[i] = c
    THEN (CHOOSE i \in 1..Len(s) : s[i] = c /\ \A j \in (i + 1)..Len(s) : s[j] # c) - 1
    ELSE -1

parsePair_lastColon(pair) ==
    LET s   == trim(pair)
        idx == lastIndexOf(s, ":")
    IN  IF idx <= 0
        THEN [error |-> FormatError, login |-> NULL, password |-> NULL]
        ELSE LET login    == trim(slice(s, 0, idx))
                 password == trim(slice(s, idx + 1, Len(s)))
             IN  IF login = <<>> \/ password = <<>>
                 THEN [error |-> RequiredError, login |-> NULL, password |-> NULL]
                 ELSE [error |-> NoError, login |-> login, password |-> password]

parsePair(pair) ==
    LET s   == trim(pair)
        idx == indexOf(s, ":")
    IN  IF idx <= 0
        THEN [error |-> FormatError, login |-> NULL, password |-> NULL]
        ELSE LET login    == trim(slice(s, 0, idx))
                 password == trim(slice(s, idx + 1, Len(s)))
             IN  IF login = <<>> \/ password = <<>>
                 THEN [error |-> RequiredError, login |-> NULL, password |-> NULL]
                 ELSE [error |-> NoError, login |-> login, password |-> password]

addAccountToMap_noSync(ms, accs, seq, mapId, login, password, label) ==
    insertAccount(ms, accs, seq, login, password, label, mapId, login, NULL)

addAccountToMap(ms, accs, seq, mapId, login, password, label) ==
    insertAccount(ms, accs, seq, login, password, orNull(label), mapId,
                  orElse(label, login), NULL)

addAccountPairToMap(ms, accs, seq, mapId, pair, label) ==
    LET p == parsePair(pair)
    IN  IF p.error # NoError
        THEN [error |-> p.error, accounts |-> accs, seq |-> seq]
        ELSE addAccountToMap(ms, accs, seq, mapId, p.login, p.password, label)


\* pairsText.split(/\r?\n/): the pieces between line breaks, a "\r" right
\* before a break belonging to the break
RECURSIVE split(_)
split(text) ==
    LET nl == indexOf(text, "\n")
    IN  IF nl = -1 THEN <<text>>
        ELSE LET cut == IF nl > 0 /\ text[nl] = "\r" THEN nl - 1 ELSE nl
             IN  <<slice(text, 0, cut)>> \o split(slice(text, nl + 1, Len(text)))

\* .map(l => l.trim()).filter(Boolean)
RECURSIVE trimmedNonBlank(_)
trimmedNonBlank(ls) ==
    IF ls = <<>> THEN <<>>
    ELSE LET l == trim(Head(ls))
         IN  IF l = <<>> THEN trimmedNonBlank(Tail(ls))
             ELSE <<l>> \o trimmedNonBlank(Tail(ls))

linesOf_keepBlank(pairsText) ==
    [i \in 1..Len(split(pairsText)) |-> trim(split(pairsText)[i])]

linesOf(pairsText) == trimmedNonBlank(split(pairsText))

NoResults == [added |-> 0, duplicates |-> 0, errors |-> <<>>]

classifyError_allDuplicates(res, line, msg) ==
    [res EXCEPT !.duplicates = @ + 1]

\* the catch block of the loop body: where a thrown message is counted
classifyError(res, line, msg) ==
    IF includes(msg, "UNIQUE") \/ includes(msg, "constraint")
    THEN [res EXCEPT !.duplicates = @ + 1]
    ELSE [res EXCEPT !.errors = Append(@, [line |-> line, error |-> msg])]

\* the for loop inside db.transaction: st = [accounts, seq, results]
RECURSIVE bulkLoop(_, _, _, _)
bulkLoop(ms, st, mapId, lines) ==
    IF lines = <<>> THEN st
    ELSE LET line == Head(lines)
             r    == addAccountPairToMap(ms, st.accounts, st.seq, mapId, line, NULL)
             next == IF r.error = NoError
                     THEN [accounts |-> r.accounts, seq |-> r.seq,
                           results  |-> [st.results EXCEPT !.added = @ + 1]]
                     ELSE [st EXCEPT !.results = classifyError(@, line, r.error)]
         IN  bulkLoop(ms, next, mapId, Tail(lines))

bulkAddPairs_noRollback(ms, accs, seq, mapId, pairsText, commits) ==
    LET end == bulkLoop(ms, [accounts |-> accs, seq |-> seq, results |-> NoResults],
                        mapId, linesOf(pairsText))
    IN  IF commits
        THEN [error |-> NoError, accounts |-> end.accounts, seq |-> end.seq,
              results |-> end.results]
        ELSE [error |-> CommitError, accounts |-> end.accounts, seq |-> end.seq,
              results |-> NoResults]

bulkAddPairs_undoOnFailure(ms, accs, seq, mapId, pairsText, commits) ==
    LET end == bulkLoop(ms, [accounts |-> accs, seq |-> seq, results |-> NoResults],
                        mapId, linesOf(pairsText))
        failed == end.results.duplicates > 0 \/ end.results.errors # <<>>
    IN  IF commits /\ ~failed
        THEN [error |-> NoError, accounts |-> end.accounts, seq |-> end.seq,
              results |-> end.results]
        ELSE [error |-> IF commits THEN NoError ELSE CommitError,
              accounts |-> accs, seq |-> seq,
              results |-> IF commits THEN end.results ELSE NoResults]

\* tx(): BEGIN, the loop, COMMIT; when COMMIT fails the transaction is rolled
\* back and the exception leaves bulkAddPairs before results is returned
bulkAddPairs(ms, accs, seq, mapId, pairsText, commits) ==
    LET end == bulkLoop(ms, [accounts |-> accs, seq |-> seq, results |-> NoResults],
                        mapId, linesOf(pairsText))
    IN  IF commits
        THEN [error |-> NoError, accounts |-> end.accounts, seq |-> end.seq,
              results |-> end.results]
        ELSE [error |-> CommitError, accounts |-> accs, seq |-> seq,
              results |-> NoResults]

\* DELETE FROM accounts WHERE map_id = ? AND login = ?  (login.trim())
removeAccountByLogin_anyMap(accs, mapId, login) ==
    LET hit == {a \in accs : a.login # NULL /\ a.login = trim(login)}
    IN  [accounts |-> accs \ hit, changes |-> Cardinality(hit)]

removeAccountByLogin(accs, mapId, login) ==
    LET hit == {a \in accs : a.map_id = mapId /\ a.login # NULL /\ a.login = trim(login)}
    IN  [accounts |-> accs \ hit, changes |-> Cardinality(hit)]

\* DELETE FROM accounts WHERE id = ?
removeAccountById(accs, id) ==
    LET hit == {a \in accs : a.id = id}
    IN  [accounts |-> accs \ hit, changes |-> Cardinality(hit)]

\* COALESCE(label, login, name)
coalesce(a) == IF a.label # NULL THEN a.label ELSE IF a.login # NULL THEN a.login ELSE a.name

\* SELECT id, COALESCE(label, login, name) AS label, login, password, map_id
\* FROM accounts WHERE id = ?: the row found, as a set of at most one row
getAccountById(accs, id) ==
    {[id |-> a.id, label |-> coalesce(a), login |-> a.login, password |-> a.password,
      map_id |-> a.map_id] : a \in {x \in accs : x.id = id}}

\* the result sets a SELECT ... ORDER BY key ASC LIMIT n may give: the rows in
\* an order in which the keys ascend (rows with equal keys come in any order),
\* cut after n rows
Orderings(rows, ordered) ==
    {s \in [1..Cardinality(rows) -> rows] :
        /\ \A i, j \in DOMAIN s : i # j => s[i] # s[j]
        /\ \A i, j \in DOMAIN s : i < j => <<s[i], s[j]>> \in ordered}
Limited(s, limit) == IF limit < Len(s) THEN SubSeq(s, 1, limit) ELSE s

\* SELECT id, COALESCE(label, login, name) AS label, login, password
\* FROM accounts WHERE map_id = ? ORDER BY label ASC LIMIT ?
\* ORDER BY label names the result column; a COALESCE(...) carries no
\* collation, so the keys are compared with BINARY
AccountRow(a) ==
    [id |-> a.id, label |-> coalesce(a), login |-> a.login, password |-> a.password]

listAccountsByMapId(accs, mapId, limit) ==
    LET rows == {AccountRow(a) : a \in {x \in accs : x.map_id = mapId}}
        byLabel == {p \in rows \X rows : orderedBinary(p[1].label, p[2].label)}
    IN  {Limited(s, limit) : s \in Orderings(rows, byLabel)}

\* SELECT m.id, m.name, COUNT(a.id) AS account_count FROM maps m
\* LEFT JOIN accounts a ON a.map_id = m.id GROUP BY m.id ORDER BY m.name ASC
\* m.name is a column declared COLLATE NOCASE, and that is how it is ordered
MapRow(m, accs) ==
    [id |-> m.id, name |-> m.name,
     account_count |-> Cardinality({a \in accs : a.map_id = m.id})]

listMapsWithCounts_binary(ms, accs) ==
    LET rows == {MapRow(m, accs) : m \in ms}
    IN  Orderings(rows, {p \in rows \X rows : orderedBinary(p[1].name, p[2].name)})

listMapsWithCounts(ms, accs) ==
    LET rows == {MapRow(m, accs) : m \in ms}
    IN  Orderings(rows, {p \in rows \X rows : orderedNocase(p[1].name, p[2].name)})

\* ------------------------------------------------------------------ inputs
MapNames  == {<<"a">>, <<" ", "A", " ">>, <<"b">>, <<" ">>}
Logins    == {<<"a">>, <<"A">>}
Passwords == {<<"1">>}
Labels    == {NULL, <<>>}
Pairs     == {<<"a", ":", "1">>, <<" ", "A", " ", ":", "1">>, <<"m">>}
AnyMapId  == 1..MaxMapId
AnyAccId  == 1..MaxAccId
\* what a label field of a form holds: nothing typed, or a label
FormLabels == {<<>>, <<" ", "L">>}

\* bulk texts: up to MaxLines of these lines, joined by "\n"
BulkLines == {<<"a", ":", "1">>, <<"b", ":", "2", "\r">>, <<"m">>, <<" ">>}

RECURSIVE join(_)
join(ls) ==
    IF ls = <<>> THEN <<>>
    ELSE IF Len(ls) = 1 THEN Head(ls)
    ELSE Head(ls) \o <<"\n">> \o join(Tail(ls))

TextsUpTo(k) == {join(ls) : ls \in UNION {[1..n -> BulkLines] : n \in 0..k}}
BulkTexts == TextsUpTo(MaxLines)
\* bulk texts of the calls made within a sequence of calls: two lines each
SeqLines  == {<<"a", ":", "1">>, <<"A", ":", "1", "\r">>}
SeqTexts  == {join(<<k, l>>) : k \in SeqLines, l \in SeqLines}

\* texts given to parsePair on its own
PairChars == {"a", " ", ":", "1"}
PairTexts == UNION {[1..n -> PairChars] : n \in 0..MaxLen}

\* ------------------------------------------------------------------ initial states
NoCall == [op |-> "none", mapId |-> 0, arg |-> <<>>,
           error |-> NoError, changes |-> 0, cascaded |-> 0, results |-> NoResults,
           reply |-> "none", label |-> NULL, limit |-> 0, rows |-> <<>>]
NoPending == [mapId |-> 0, pairsText |-> <<>>]
NoParse == [input |-> <<>>, error |-> NoError, login |-> NULL, password |-> NULL,
            done |-> FALSE]

\* a store written before the login/password/label columns existed: its
\* rows have name and data only, the added columns are NULL
LegacyRow(id, mapId, name) ==
    [id |-> id, name |-> name, map_id |-> mapId, data |-> <<"d">>,
     login |-> NULL, password |-> NULL, label |-> NULL]

Init ==
    /\ \/ /\ maps = {} /\ accounts = {} /\ seqMaps = 0 /\ seqAccounts = 0
       \/ /\ maps = {[id |-> 1, name |-> <<"b">>]}
          /\ accounts = {LegacyRow(1, 1, <<"x">>), LegacyRow(2, 1, <<"x">>)}
          /\ seqMaps = 1 /\ seqAccounts = 2
    /\ modal = 0
    /\ last = NoCall
    /\ parsed = NoParse
    /\ pending = NoPending
    /\ schema = CurrentSchema

\* ------------------------------------------------------------------ calls
CreateMap(name) ==
    LET r == insertMap(maps, seqMaps, trim(name))
    IN  /\ maps' = r.maps
        /\ seqMaps' = r.seq
        /\ last' = [NoCall EXCEPT !.op = "createMap", !.arg = name, !.error = r.error,
                                  !.changes = IF r.error = NoError THEN 1 ELSE 0]
        /\ UNCHANGED <<accounts, seqAccounts, modal, parsed, pending, schema>>

DeleteMapById(id) ==
    LET r == deleteMapCascade(maps, accounts, id)
    IN  /\ maps' = r.maps
        /\ accounts' = r.accounts
        /\ last' = [NoCall EXCEPT !.op = "deleteMapById", !.mapId = id,
                                  !.changes = r.changes,
                                  !.cascaded = Cardinality(accounts \ r.accounts)]
        /\ UNCHANGED <<seqMaps, seqAccounts, modal, parsed, pending, schema>>

AddAccountToMap(mapId, login, password, label) ==
    LET r == addAccountToMap(maps, accounts, seqAccounts, mapId, login, password, label)
    IN  /\ accounts' = r.accounts
        /\ seqAccounts' = r.seq
        /\ last' = [NoCall EXCEPT !.op = "addAccountToMap", !.mapId = mapId,
                                  !.arg = login, !.label = label, !.error = r.error,
                                  !.changes = IF r.error = NoError THEN 1 ELSE 0]
        /\ UNCHANGED <<maps, seqMaps, modal, parsed, pending, schema>>

AddAccountPairToMap(mapId, pair, label) ==
    LET r == addAccountPairToMap(maps, accounts, seqAccounts, mapId, pair, label)
    IN  /\ accounts' = r.accounts
        /\ seqAccounts' = r.seq
        /\ last' = [NoCall EXCEPT !.op = "addAccountPairToMap", !.mapId = mapId,
                                  !.arg = pair, !.label = label, !.error = r.error,
                                  !.changes = IF r.error = NoError THEN 1 ELSE 0]
        /\ UNCHANGED <<maps, seqMaps, modal, parsed, pending, schema>>

BulkAddPairs(mapId, pairsText, commits) ==
    LET r == bulkAddPairs(maps, accounts, seqAccounts, mapId, pairsText, commits)
    IN  /\ accounts' = r.accounts
        /\ seqAccounts' = r.seq
        /\ last' = [NoCall EXCEPT !.op = "bulkAddPairs", !.mapId = mapId,
                                  !.error = r.error,
                                  !.results = r.results]
        /\ UNCHANGED <<maps, seqMaps, modal, parsed, pending, schema>>

RemoveAccountByLogin(mapId, login) ==
    LET r == removeAccountByLogin(accounts, mapId, login)
    IN  /\ accounts' = r.accounts
        /\ last' = [NoCall EXCEPT !.op = "removeAccountByLogin", !.mapId = mapId,
                                  !.arg = login, !.changes = r.changes]
        /\ UNCHANGED <<maps, seqMaps, seqAccounts, modal, parsed, pending, schema>>

RemoveAccountById(id) ==
    LET r == removeAccountById(accounts, id)
    IN  /\ accounts' = r.accounts
        /\ last' = [NoCall EXCEPT !.op = "removeAccountById", !.mapId = id,
                                  !.changes = r.changes]
        /\ UNCHANGED <<maps, seqMaps, seqAccounts, modal, parsed, pending, schema>>

ListAccountsByMapId(mapId, limit) ==
    /\ \E rows \in listAccountsByMapId(accounts, mapId, limit) :
          last' = [NoCall EXCEPT !.op = "listAccountsByMapId", !.mapId = mapId,
                                 !.limit = limit, !.rows = rows]
    /\ UNCHANGED <<maps, accounts, seqMaps, seqAccounts, modal, parsed, pending, schema>>

ListMapsWithCounts ==
    /\ \E rows \in listMapsWithCounts(maps, accounts) :
          last' = [NoCall EXCEPT !.op = "listMapsWithCounts", !.rows = rows]
    /\ UNCHANGED <<maps, accounts, seqMaps, seqAccounts, modal, parsed, pending, schema>>

\* ------------------------------------------------------------------ handlers
\* select menu acc:add:select: the chosen value is looked up and the modal
\* that opens carries the map's id in its customId
AccAddSelect(value) ==
    /\ IF value \in MapIds
       THEN modal' = value /\ last' = [NoCall EXCEPT !.op = "acc:add:select",
                                                     !.mapId = value, !.reply = "modal"]
       ELSE modal' = modal /\ last' = [NoCall EXCEPT !.op = "acc:add:select",
                                                     !.mapId = value, !.reply = "Map not found."]
    /\ UNCHANGED <<maps, accounts, seqMaps, seqAccounts, parsed, pending, schema>>

\* modal submit acc:add:modal:<id>
AccAddModal(pair, label) ==
    /\ modal # 0
    /\ LET lbl == orNull(trim(label))
           r   == addAccountPairToMap(maps, accounts, seqAccounts, modal, trim(pair), lbl)
       IN  /\ accounts' = r.accounts
           /\ seqAccounts' = r.seq
           /\ last' = [NoCall EXCEPT !.op = "acc:add:modal", !.mapId = modal,
                          !.arg = pair, !.error = r.error,
                          !.changes = IF r.error = NoError THEN 1 ELSE 0,
                          !.reply = IF r.error = NoError THEN "Added to map."
                                    ELSE IF includes(r.error, "UNIQUE") THEN "Duplicate"
                                    ELSE "Error"]
    /\ modal' = 0
    /\ UNCHANGED <<maps, seqMaps, parsed, pending, schema>>

\* POST /map/:id/account
PostMapAccount(id, pair, label) ==
    /\ IF id \notin MapIds
       THEN /\ UNCHANGED <<accounts, seqAccounts>>
            /\ last' = [NoCall EXCEPT !.op = "POST /map/:id/account", !.mapId = id,
                           !.arg = pair, !.reply = "404 Map not found"]
       ELSE IF trim(pair) = <<>>
       THEN /\ UNCHANGED <<accounts, seqAccounts>>
            /\ last' = [NoCall EXCEPT !.op = "POST /map/:id/account", !.mapId = id,
                           !.arg = pair, !.reply = "redirect"]
       ELSE LET lbl == orNull(trim(label))
                r   == addAccountPairToMap(maps, accounts, seqAccounts, id, trim(pair), lbl)
            IN  /\ accounts' = r.accounts
                /\ seqAccounts' = r.seq
                /\ last' = [NoCall EXCEPT !.op = "POST /map/:id/account", !.mapId = id,
                               !.arg = pair,
                               !.changes = IF r.error = NoError THEN 1 ELSE 0,
                               !.reply = "redirect"]
    /\ UNCHANGED <<maps, seqMaps, modal, parsed, pending, schema>>

\* ------------------------------------------------------------------ specification
\* AUTOINCREMENT never runs out; a run of the model stops handing out ids here
Capped == seqMaps' <= MaxMapId /\ seqAccounts' <= MaxAccId

Next ==
    \/ \E name \in MapNames : CreateMap(name) /\ Capped
    \/ \E id \in AnyMapId : DeleteMapById(id)
    \/ \E mapId \in AnyMapId, login \in Logins, password \in Passwords, label \in Labels :
          AddAccountToMap(mapId, login, password, label) /\ Capped
    \/ \E mapId \in AnyMapId, pair \in Pairs :
          AddAccountPairToMap(mapId, pair, NULL) /\ Capped
    \/ \E mapId \in AnyMapId, text \in SeqTexts, commits \in BOOLEAN :
          BulkAddPairs(mapId, text, commits) /\ Capped
    \/ \E mapId \in AnyMapId, login \in Logins : RemoveAccountByLogin(mapId, login)
    \/ \E id \in AnyAccId : RemoveAccountById(id)

Spec == Init /\ [][Next]_vars

\* the panel and the web form next to the calls that create and delete maps:
\* a map id chosen in one request is used by a later one
NextPanel ==
    \/ \E name \in MapNames : CreateMap(name) /\ Capped
    \/ \E id \in AnyMapId : DeleteMapById(id)
    \/ \E mapId \in AnyMapId, login \in Logins, password \in Passwords :
          AddAccountToMap(mapId, login, password, NULL) /\ Capped
    \/ \E mapId \in AnyMapId, pair \in Pairs :
          AddAccountPairToMap(mapId, pair, NULL) /\ Capped
    \/ \E value \in AnyMapId : AccAddSelect(value)
    \/ \E pair \in Pairs, label \in FormLabels : AccAddModal(pair, label) /\ Capped
    \/ \E id \in AnyMapId, pair \in Pairs, label \in FormLabels :
          PostMapAccount(id, pair, label) /\ Capped

SpecPanel == Init /\ [][NextPanel]_vars

\* the calls that write accounts next to the calls that list them: names,
\* logins and labels in both cases, labels given, empty and left out
ListNames    == {<<"a">>, <<"B">>}
ListLogins   == {<<"a">>, <<"B">>}
ListLabels   == {NULL, <<>>, <<"L">>}
ListPairs    == {<<"B", ":", "1">>}
ListTexts    == {join(<< <<"B", ":", "1">>, <<"a", ":", "1">> >>)}
RemoveLogins == {<<" ", "a", " ">>, <<"B">>}
Limits       == {1, 250}

NextList ==
    \/ \E name \in ListNames : CreateMap(name) /\ Capped
    \/ \E id \in AnyMapId : DeleteMapById(id)
    \/ \E mapId \in AnyMapId, login \in ListLogins, password \in Passwords,
          label \in ListLabels :
          AddAccountToMap(mapId, login, password, label) /\ Capped
    \/ \E mapId \in AnyMapId, pair \in ListPairs, label \in ListLabels :
          AddAccountPairToMap(mapId, pair, label) /\ Capped
    \/ \E mapId \in AnyMapId, text \in ListTexts, commits \in BOOLEAN :
          BulkAddPairs(mapId, text, commits) /\ Capped
    \/ \E mapId \in AnyMapId, login \in RemoveLogins : RemoveAccountByLogin(mapId, login)
    \/ \E mapId \in AnyMapId, limit \in Limits : ListAccountsByMapId(mapId, limit)
    \/ ListMapsWithCounts

SpecList == Init /\ [][NextList]_vars

\* a bulk call on its own: the store is one a sequence of calls leaves behind
\* (two maps created, three accounts added, some of them deleted again) and the
\* arguments are any map id and any text of BulkTexts
BulkMaps == {[id |-> 1, name |-> <<"a">>], [id |-> 2, name |-> <<"b">>]}
BulkRow(id, mapId, login, password) ==
    [id |-> id, name |-> login, map_id |-> mapId, data |-> NULL,
     login |-> login, password |-> password, label |-> NULL]
BulkRows == {BulkRow(1, 1, <<"a">>, <<"1">>), BulkRow(2, 1, <<"b">>, <<"9">>),
             BulkRow(3, 2, <<"a">>, <<"1">>)}

InitBulk ==
    /\ maps \in SUBSET BulkMaps
    /\ accounts \in {accs \in SUBSET BulkRows : \A a \in accs : a.map_id \in MapIds}
    /\ seqMaps = 2
    /\ seqAccounts = 3
    /\ modal = 0
    /\ last = NoCall
    /\ parsed = NoParse
    /\ pending \in [mapId : AnyMapId, pairsText : BulkTexts]
    /\ schema = CurrentSchema

NextBulk ==
    /\ last.op = "none"
    /\ \E commits \in BOOLEAN : BulkAddPairs(pending.mapId, pending.pairsText, commits)

SpecBulk == InitBulk /\ [][NextBulk]_vars

\* the start of the process on its own, over the stores it may find: no
\* tables yet; the tables of an older version, whose accounts have the legacy
\* columns and, when an earlier start was cut short, some of the added ones,
\* all NULL; or the current schema with rows written through it
LegacyColumns == {"id", "name", "map_id", "data"}
OldRow(id, mapId, name, cols) ==
    [f \in LegacyColumns \cup cols |->
        CASE f = "id" -> id [] f = "name" -> name [] f = "map_id" -> mapId
          [] f = "data" -> <<"d">> [] OTHER -> NULL]
OldRows(cols) == {OldRow(1, 1, <<"x">>, cols), OldRow(2, 1, <<"x">>, cols),
                  OldRow(3, 2, <<"B">>, cols)}

Startup ==
    LET r == startup([schema |-> schema, maps |-> maps, accounts |-> accounts,
                      error |-> NoError, changes |-> 0])
    IN  /\ schema' = r.schema
        /\ maps' = r.maps
        /\ accounts' = r.accounts
        /\ last' = [NoCall EXCEPT !.op = "startup", !.error = r.error,
                                  !.changes = r.changes]
        /\ UNCHANGED <<seqMaps, seqAccounts, modal, parsed, pending>>

InitSchema ==
    /\ \/ /\ schema = NoSchema
          /\ maps = {} /\ accounts = {} /\ seqMaps = 0 /\ seqAccounts = 0
       \/ /\ \E cols \in SUBSET {"login", "password", "label"} :
                /\ schema = [tables |-> {"maps", "accounts"}, columns |-> cols,
                             index |-> FALSE]
                /\ maps \in SUBSET BulkMaps
                /\ accounts \in {accs \in SUBSET OldRows(cols) :
                                     \A a \in accs : a.map_id \in MapIds}
          /\ seqMaps = 2 /\ seqAccounts = 3
       \/ /\ schema = CurrentSchema
          /\ maps \in SUBSET BulkMaps
          /\ accounts \in {accs \in SUBSET BulkRows : \A a \in accs : a.map_id \in MapIds}
          /\ seqMaps = 2 /\ seqAccounts = 3
    /\ modal = 0
    /\ last = NoCall
    /\ parsed = NoParse
    /\ pending = NoPending

NextSchema == Startup

SpecSchema == InitSchema /\ [][NextSchema]_vars

\* parsePair on its own, over every text of PairTexts
ParsePair(text) ==
    LET p == parsePair(text)
    IN  /\ parsed' = [input |-> text, error |-> p.error, login |-> p.login,
                      password |-> p.password, done |-> TRUE]
        /\ UNCHANGED <<maps, accounts, seqMaps, seqAccounts, modal, last, pending, schema>>

NextParse == \E text \in PairTexts : ParsePair(text)

SpecParse == Init /\ [][NextParse]_vars


\* ------------------------------------------------------------------ properties
\* what the properties mean by white space, trimming and letter case, stated
\* without the operators of the model
Blank == {" ", "\t", "\r", "\n"}
IsTrimOf(t, s) ==
    \E i \in 1..(Len(s) + 1), j \in 0..Len(s) :
        /\ t = SubSeq(s, i, j)
        /\ \A k \in 1..Len(s) : (k < i \/ k > j) => s[k] \in Blank
        /\ t # <<>> => t[1] \notin Blank /\ t[Len(t)] \notin Blank
Trimmed(s) ==
    CHOOSE t \in {SubSeq(s, i, j) : i \in 1..(Len(s) + 1), j \in 0..Len(s)} : IsTrimOf(t, s)
CasePairs == {{"a", "A"}, {"b", "B"}, {"c", "C"}, {"l", "L"}}
EqIgnoringCase(s, t) ==
    /\ Len(s) = Len(t)
    /\ \A i \in 1..Len(s) : s[i] = t[i] \/ {s[i], t[i]} \in CasePairs
SameName(n1, n2) == EqIgnoringCase(Trimmed(n1), Trimmed(n2))

\* C1: createMap with a name equal, after trimming and ignoring letter case, to
\* the name of an existing map fails with the UNIQUE error and changes no map;
\* and no two maps ever have names equal in that sense.
C1_NoTwoMapsSameName ==
    \A m1, m2 \in maps : m1.id # m2.id => ~SameName(m1.name, m2.name)
C1_DuplicateFails ==
    (last'.op = "createMap" /\ \E m \in maps : SameName(m.name, last'.arg))
        => (last'.error = UniqueMaps /\ maps' = maps /\ seqMaps' = seqMaps)
C1_MapNameUnique == [](C1_NoTwoMapsSameName) /\ [][C1_DuplicateFails]_vars

C1_Witness ==
    /\ last.op = "createMap" /\ last.error = UniqueMaps
    /\ \E m \in maps : SameName(m.name, last.arg) /\ m.name # last.arg

\* C2: every account row refers to an existing map, and deleteMapById(M) removes
\* in the same step every account of M: none of them is found by id or by
\* map id afterwards.
C2_NoOrphan == \A a \in accounts : a.map_id \in MapIds
C2_DeleteCascades ==
    last'.op = "deleteMapById" =>
        /\ \A a \in accounts : a.map_id = last'.mapId => getAccountById(accounts', a.id) = {}
        /\ {a \in accounts' : a.map_id = last'.mapId} = {}
        /\ \A a \in accounts : a.map_id # last'.mapId => a \in accounts'
C2_CascadeDelete == [](C2_NoOrphan) /\ [][C2_DeleteCascades]_vars

C2_Witness ==
    last.op = "deleteMapById" /\ last.changes = 1 /\ last.cascaded >= 1

\* C3 as stated: no two accounts of one map have non-null logins that are
\* equal ignoring letter case.
C3_NoTwoLoginsIgnoringCase ==
    \A a, b \in accounts :
        (a.id # b.id /\ a.map_id = b.map_id /\ a.login # NULL /\ b.login # NULL)
            => ~EqIgnoringCase(a.login, b.login)

\* C3 as amended: no two accounts of one map have the same non-null login,
\* compared exactly; addAccountToMap with a login some account of the map
\* already has fails with the UNIQUE error and adds nothing, and with a login
\* that no account of the (existing) map has exactly, also one that differs
\* only in case from an existing one, it adds the row. Null logins are exempt.
C3_NoTwoLoginsExact ==
    \A a, b \in accounts :
        (a.id # b.id /\ a.map_id = b.map_id /\ a.login # NULL /\ b.login # NULL)
            => a.login # b.login
C3_AddExact ==
    last'.op = "addAccountToMap" =>
        IF \E a \in accounts : a.map_id = last'.mapId /\ a.login = last'.arg
        THEN last'.error = UniqueLogin /\ accounts' = accounts
        ELSE last'.mapId \in MapIds =>
                /\ last'.error = NoError
                /\ \E a \in accounts' \ accounts :
                      a.map_id = last'.mapId /\ a.login = last'.arg
C3_LoginUniqueExact == [](C3_NoTwoLoginsExact) /\ [][C3_AddExact]_vars

C3_Witness ==
    /\ last.op = "addAccountToMap" /\ last.error = NoError
    /\ \E a, b \in accounts :
          /\ a.id # b.id /\ a.map_id = b.map_id /\ a.map_id = last.mapId
          /\ a.login = last.arg /\ b.login # a.login /\ EqIgnoringCase(a.login, b.login)

\* C4: a single add of a (login, mapId) pair that is already there fails with
\* the UNIQUE error and changes nothing; a single add of a login that only
\* other maps have, into an existing map, adds one row to that map.
AddOps == {"addAccountToMap", "addAccountPairToMap"}
LoginOf(call) == IF call.op = "addAccountToMap" THEN call.arg ELSE parsePair(call.arg).login
C4_Add ==
    (last'.op \in AddOps /\ LoginOf(last') # NULL) =>
        LET login == LoginOf(last')
            mapId == last'.mapId
        IN  /\ (\E a \in accounts : a.map_id = mapId /\ a.login = login)
                => (last'.error = UniqueLogin /\ accounts' = accounts
                    /\ seqAccounts' = seqAccounts)
            /\ (/\ mapId \in MapIds
                /\ \A a \in accounts : a.map_id = mapId => a.login # login
                /\ \E a \in accounts : a.map_id # mapId /\ a.login = login)
                => (/\ last'.error = NoError
                    /\ \E new \in accounts' :
                          /\ new \notin accounts /\ accounts' = accounts \cup {new}
                          /\ new.map_id = mapId /\ new.login = login)
C4_SamePairTwice == [][C4_Add]_vars

C4_Witness ==
    /\ last.op \in AddOps /\ last.error = UniqueLogin
    /\ \E a, b \in accounts : a.map_id = last.mapId /\ b.map_id # a.map_id
                             /\ a.login = LoginOf(last) /\ b.login = a.login


\* what the properties mean by the lines of a text and by a pair, stated
\* without the operators of the model
Breaks(text) == {i \in 1..Len(text) : text[i] = "\n"}
BreakAt(text, k) ==
    CHOOSE i \in Breaks(text) : Cardinality({j \in Breaks(text) : j < i}) = k - 1
Segment(text, k) ==
    SubSeq(text,
           IF k = 1 THEN 1 ELSE BreakAt(text, k - 1) + 1,
           IF k = Cardinality(Breaks(text)) + 1 THEN Len(text) ELSE BreakAt(text, k) - 1)
NonBlank(l) == l # <<>>
NonBlankLines(text) ==
    SelectSeq([k \in 1..(Cardinality(Breaks(text)) + 1) |-> Trimmed(Segment(text, k))],
              NonBlank)

\* the place of the first colon of s, 0 when s has none
FirstColon(s) ==
    IF \E i \in 1..Len(s) : s[i] = ":"
    THEN CHOOSE i \in 1..Len(s) : s[i] = ":" /\ \A j \in 1..Len(s) : s[j] = ":" => i <= j
    ELSE 0
LoginPart(s)    == Trimmed(SubSeq(s, 1, FirstColon(s) - 1))
PasswordPart(s) == Trimmed(SubSeq(s, FirstColon(s) + 1, Len(s)))
IsPair(s) == FirstColon(s) > 1 /\ LoginPart(s) # <<>> /\ PasswordPart(s) # <<>>

\* the classification C5 describes: lines taken in order against the logins the
\* target map has so far
RECURSIVE Classified(_, _, _)
Classified(logins, lines, sofar) ==
    IF lines = <<>> THEN [sofar EXCEPT !.logins = logins]
    ELSE LET line == Head(lines)
         IN  IF ~IsPair(line)
             THEN Classified(logins, Tail(lines),
                             [sofar EXCEPT !.errors = Append(@, line)])
             ELSE IF LoginPart(line) \in logins
             THEN Classified(logins, Tail(lines),
                             [sofar EXCEPT !.duplicates = @ + 1])
             ELSE Classified(logins \cup {LoginPart(line)}, Tail(lines),
                             [sofar EXCEPT !.added = @ + 1])
NothingClassified == [added |-> 0, duplicates |-> 0, errors |-> <<>>, logins |-> {}]

LoginsIn(accs, mapId) == {a.login : a \in {x \in accs : x.map_id = mapId}}
ErrorLines(results) == [i \in 1..Len(results.errors) |-> results.errors[i].line]
Returned == last'.op = "bulkAddPairs" /\ last'.error = NoError

\* C5: a bulk call into an existing map classifies the trimmed non-blank lines
\* in input order: a line that is no pair goes to errors with its text, a pair
\* whose login the map already has (from before or from an earlier line of the
\* call) counts as a duplicate, every other pair is inserted and counts as added.
C5_Classifies ==
    (Returned /\ last'.mapId \in MapIds) =>
        LET want == Classified(LoginsIn(accounts, last'.mapId),
                               NonBlankLines(pending.pairsText), NothingClassified)
        IN  /\ last'.results.added = want.added
            /\ last'.results.duplicates = want.duplicates
            /\ ErrorLines(last'.results) = want.errors
            /\ LoginsIn(accounts', last'.mapId) = want.logins
C5_OrderedClassification == [][C5_Classifies]_vars

C5_Witness ==
    /\ last.op = "bulkAddPairs" /\ last.error = NoError /\ last.mapId \in MapIds
    /\ NonBlankLines(pending.pairsText)
          = << <<"a", ":", "1">>, <<"a", ":", "1">>, <<"b", ":", "2">>, <<"m">> >>
    /\ last.results.added = 2 /\ last.results.duplicates = 1
    /\ ErrorLines(last.results) = << <<"m">> >>
    /\ LoginsIn(accounts, last.mapId) = {<<"a">>, <<"b">>}

\* C6: a bulk call whose insert fails for another reason than the login being
\* there already, as when mapId refers to no map, records the line in errors
\* and counts no duplicate.
C6_ForeignKeyIsAnError ==
    (Returned /\ last'.mapId \notin MapIds) =>
        /\ last'.results.duplicates = 0
        /\ last'.results.added = 0
        /\ ErrorLines(last'.results) = NonBlankLines(pending.pairsText)
C6_OnlyLoginsAreDuplicates == [][C6_ForeignKeyIsAnError]_vars

\* C7: when the transaction of a bulk call cannot commit, the accounts are the
\* ones from before the call, no id has been used up, and the caller gets the
\* failure and no summary.
C7_NoCommitNoInsert ==
    (last'.op = "bulkAddPairs" /\ last'.error # NoError) =>
        /\ accounts' = accounts
        /\ seqAccounts' = seqAccounts
        /\ last'.results = NoResults
C7_AtomicCommit == [][C7_NoCommitNoInsert]_vars

C7_Witness ==
    /\ last.op = "bulkAddPairs" /\ last.error = CommitError
    /\ last.mapId \in MapIds
    /\ \E i \in 1..Len(NonBlankLines(pending.pairsText)) :
          LET line == NonBlankLines(pending.pairsText)[i]
          IN  IsPair(line) /\ LoginPart(line) \notin LoginsIn(accounts, last.mapId)

\* C8: parsePair splits its trimmed input at the first colon; it fails when
\* there is no colon or the input starts with it, and when the login or the
\* password is empty after trimming; otherwise the login is the trimmed text
\* before the first colon and the password the trimmed text after it.
C8_ParsePair ==
    parsed.done =>
        LET s == Trimmed(parsed.input)
        IN  IF FirstColon(s) <= 1
            THEN parsed.error = FormatError
            ELSE IF LoginPart(s) = <<>> \/ PasswordPart(s) = <<>>
            THEN parsed.error = RequiredError
            ELSE /\ parsed.error = NoError
                 /\ parsed.login = LoginPart(s)
                 /\ parsed.password = PasswordPart(s)

C8_Witness ==
    /\ parsed.done /\ parsed.error = NoError
    /\ \E i \in 1..Len(parsed.password) : parsed.password[i] = ":"
    /\ parsed.input # Trimmed(parsed.input)

\* C9: createMap with a name that is empty after trimming fails and inserts
\* nothing, and no map ever has the empty name.
C9_NoEmptyName == \A m \in maps : m.name # <<>>
C9_EmptyFails ==
    (last'.op = "createMap" /\ Trimmed(last'.arg) = <<>>)
        => (last'.error # NoError /\ maps' = maps)
C9_EmptyNameRejected == [][C9_EmptyFails /\ C9_NoEmptyName']_vars

\* C10: an add that targets a map id that refers to no map (the map was
\* deleted, also between the panel's select and its modal) gives its caller an
\* error and changes no account; and an id that refers to no map never comes to
\* refer to one, so the add cannot land in a map created later.
AddRequests == AddOps \cup {"acc:add:modal", "POST /map/:id/account"}
Surfaced(call) ==
    CASE call.op = "acc:add:modal" -> call.reply = "Error" /\ call.error # NoError
      [] call.op = "POST /map/:id/account" -> call.reply = "404 Map not found"
      [] OTHER -> call.error # NoError
C10_AddAfterDelete ==
    /\ (last'.op \in AddRequests /\ last'.mapId \notin MapIds)
          => (Surfaced(last') /\ accounts' = accounts)
    /\ \A id \in 1..seqMaps : id \notin MapIds => id \notin {m.id : m \in maps'}
C10_StaleMapId == [][C10_AddAfterDelete]_vars

C10_Witness ==
    /\ last.op = "acc:add:modal" /\ last.reply = "Error"
    /\ last.mapId \in 1..seqMaps /\ last.mapId \notin MapIds
    /\ last.error = ForeignKey
    /\ maps # {}

\* what the properties mean by ascending order ignoring letter case, stated
\* without the operators of the model: characters in their usual order, the two
\* cases of a letter in one place
Collation ==
    << {"\t"}, {"\n"}, {"\r"}, {" "}, {"1"}, {"2"}, {"9"}, {":"}, {"a", "A"},
       {"b", "B"}, {"c", "C"}, {"d"}, {"l", "L"}, {"m"}, {"x"} >>
Rank(c) == CHOOSE i \in 1..Len(Collation) : c \in Collation[i]
PrecedesIgnoringCase(s, t) ==
    \/ /\ Len(s) <= Len(t)
       /\ \A i \in 1..Len(s) : Rank(s[i]) = Rank(t[i])
    \/ \E k \in 1..Len(s) :
          /\ k <= Len(t)
          /\ Rank(s[k]) < Rank(t[k])
          /\ \A i \in 1..(k - 1) : Rank(s[i]) = Rank(t[i])
EffectiveLabel(a) ==
    IF a.label # NULL THEN a.label ELSE IF a.login # NULL THEN a.login ELSE a.name

\* C11: listAccountsByMapId(M, limit) returns accounts of M and only those,
\* each once and with its effective label, in ascending order of the effective
\* label ignoring letter case: all of them when limit is at least their number,
\* otherwise the first limit of that order; none, and no error, for a map
\* without accounts.
C11_ListedInOrderIgnoringCase ==
    last.op = "listAccountsByMapId" =>
        LET mine == {a \in accounts : a.map_id = last.mapId}
            N    == Cardinality(mine)
            rows == last.rows
            k    == IF last.limit >= N THEN N ELSE last.limit
        IN  /\ last.error = NoError
            /\ Len(rows) = k
            /\ \A i \in 1..k : \E a \in mine :
                  /\ rows[i].id = a.id /\ rows[i].label = EffectiveLabel(a)
                  /\ rows[i].login = a.login /\ rows[i].password = a.password
            /\ \A i, j \in 1..k : i # j => rows[i].id # rows[j].id
            /\ \A i, j \in 1..k :
                  i < j => PrecedesIgnoringCase(rows[i].label, rows[j].label)
            /\ \A a \in mine :
                  (\A i \in 1..k : rows[i].id # a.id)
                      => \A i \in 1..k : PrecedesIgnoringCase(rows[i].label, EffectiveLabel(a))

\* C12: listMapsWithCounts returns every existing map exactly once and nothing
\* else, each with the number of account rows of that map (0 when it has
\* none), in ascending order of the map name ignoring letter case.
C12_MapsWithCounts ==
    last.op = "listMapsWithCounts" =>
        LET rows == last.rows
        IN  /\ Len(rows) = Cardinality(maps)
            /\ \A m \in maps : \E i \in 1..Len(rows) :
                  /\ rows[i].id = m.id /\ rows[i].name = m.name
                  /\ rows[i].account_count = Cardinality({a \in accounts : a.map_id = m.id})
                  /\ \A j \in 1..Len(rows) : rows[j].id = m.id => j = i
            /\ \A i, j \in 1..Len(rows) :
                  i < j => PrecedesIgnoringCase(rows[i].name, rows[j].name)

C12_Witness ==
    /\ last.op = "listMapsWithCounts" /\ Len(last.rows) = 2
    /\ last.rows[1].name = <<"a">> /\ last.rows[2].name = <<"B">>
    /\ last.rows[1].account_count = 0 /\ last.rows[2].account_count = 2

\* C13: every account row written by addAccountToMap, addAccountPairToMap or
\* bulkAddPairs has a null data field and a name field equal to its effective
\* label: the label when one is given and not empty, otherwise the login; a
\* label that is empty or left out is stored as null (the bulk call gives none).
WriteOps == {"addAccountToMap", "addAccountPairToMap", "bulkAddPairs"}
GivenLabel(call) ==
    IF call.op = "bulkAddPairs" \/ call.label = <<>> THEN NULL ELSE call.label
C13_RowWritten ==
    last'.op \in WriteOps =>
        \A r \in accounts' \ accounts :
            /\ r.data = NULL
            /\ r.label = GivenLabel(last')
            /\ r.name = (IF GivenLabel(last') # NULL THEN GivenLabel(last') ELSE r.login)
            /\ r.name = EffectiveLabel(r)
C13_NameSynchronized == [][C13_RowWritten]_vars

C13_Witness ==
    /\ last.op = "addAccountToMap" /\ last.error = NoError /\ last.label = <<>>
    /\ \E r, q \in accounts :
          /\ r.id = seqAccounts /\ r.label = NULL /\ r.name = r.login /\ r.data = NULL
          /\ q.id # r.id /\ q.label = <<"L">> /\ q.name = <<"L">> /\ q.login # q.name

\* C14: removeAccountByLogin(M, login) deletes the account of M whose login is
\* the trimmed argument, which is at most one row, and nothing else: it
\* reports the number of rows deleted, 0 without an error when there is no
\* such account, and leaves the accounts of the other maps (also those with
\* the same login) and all maps as they were.
C14_RemovesOne ==
    last'.op = "removeAccountByLogin" =>
        LET gone == accounts \ accounts'
        IN  /\ accounts' \subseteq accounts
            /\ gone = {a \in accounts : a.map_id = last'.mapId
                                          /\ a.login = Trimmed(last'.arg)}
            /\ Cardinality(gone) <= 1
            /\ last'.changes = Cardinality(gone)
            /\ last'.error = NoError
            /\ maps' = maps /\ seqMaps' = seqMaps /\ seqAccounts' = seqAccounts
C14_RemoveByLogin == [][C14_RemovesOne]_vars

C14_Witness ==
    /\ last.op = "removeAccountByLogin" /\ last.changes = 1
    /\ last.arg # Trimmed(last.arg)
    /\ \A a \in accounts : a.map_id = last.mapId => a.login # Trimmed(last.arg)
    /\ \E a \in accounts : a.map_id # last.mapId /\ a.login = Trimmed(last.arg)

\* C15: the start of the process, on a store without tables, with the tables of
\* an older version or with the current schema, ends without an error with
\* both tables, the login, password and label columns and the index; it keeps
\* every map row and every account row with all the values it had, the columns
\* it adds holding NULL; and a start that follows another changes nothing.
AllColumns == {"id", "name", "map_id", "data", "login", "password", "label"}
C15_Starts ==
    last'.op = "startup" =>
        /\ last'.error = NoError
        /\ schema'.tables = {"maps", "accounts"}
        /\ schema'.columns = {"login", "password", "label"}
        /\ schema'.index
        /\ maps' = maps
        /\ Cardinality(accounts') = Cardinality(accounts)
        /\ \A a \in accounts : \E b \in accounts' :
              /\ DOMAIN b = AllColumns
              /\ \A f \in DOMAIN a : b[f] = a[f]
              /\ \A f \in AllColumns \ DOMAIN a : b[f] = NULL
        /\ seqMaps' = seqMaps /\ seqAccounts' = seqAccounts
        /\ last.op = "startup" =>
              (schema' = schema /\ accounts' = accounts /\ last'.changes = 0)
C15_IdempotentStartup == [][C15_Starts]_vars

C15_Witness ==
    /\ last.op = "startup" /\ last.changes = 0 /\ last.error = NoError
    /\ \E a, b \in accounts :
          /\ a.id # b.id /\ a.name = b.name
          /\ a.data = <<"d">> /\ a.login = NULL /\ a.label = NULL

\* C16: when a bulk call commits, a line that is a duplicate or malformed undoes
\* nothing: every account from before the call is still there, the rows added
\* are results.added many, all in the target map, one for each login of a pair
\* line that the map did not have (none when the map does not exist), so the
\* logins of the target map are those from before plus these, and the accounts
\* of the other maps are unchanged.
PairLogins(text) ==
    {LoginPart(NonBlankLines(text)[i]) :
        i \in {k \in 1..Len(NonBlankLines(text)) : IsPair(NonBlankLines(text)[k])}}
C16_KeepsEarlierLines ==
    Returned =>
        LET M      == last'.mapId
            new    == accounts' \ accounts
            before == LoginsIn(accounts, M)
            fresh  == IF M \in MapIds THEN PairLogins(pending.pairsText) \ before ELSE {}
        IN  /\ accounts \subseteq accounts'
            /\ \A r \in new : r.map_id = M
            /\ {r.login : r \in new} = fresh
            /\ Cardinality(new) = last'.results.added
            /\ LoginsIn(accounts', M) = before \cup fresh
            /\ Cardinality({a \in accounts' : a.map_id = M})
                  = Cardinality({a \in accounts : a.map_id = M}) + last'.results.added
            /\ {a \in accounts' : a.map_id # M} = {a \in accounts : a.map_id # M}
C16_NoUndoOfEarlierLines == [][C16_KeepsEarlierLines]_vars

C16_Witness ==
    /\ last.op = "bulkAddPairs" /\ last.error = NoError
    /\ Len(NonBlankLines(pending.pairsText)) = 4
    /\ IsPair(NonBlankLines(pending.pairsText)[1])
    /\ ~IsPair(NonBlankLines(pending.pairsText)[2])
    /\ last.results.added = 2 /\ last.results.duplicates = 1
    /\ Cardinality({a \in accounts : a.map_id = last.mapId}) = 2
    /\ \E a \in accounts : a.map_id # last.mapId

\* C17: a bulk call that returns has classified every trimmed non-blank line
\* exactly once, whatever failed on the lines before it: added, duplicates and
\* the length of errors sum to the number of non-blank lines, blank lines are
\* counted nowhere, and errors holds the lines that are no pair, each with a
\* message, in the order of the input.
Malformed(l) == ~IsPair(l)
C17_EveryLineClassified ==
    Returned =>
        LET lines == NonBlankLines(pending.pairsText)
            res   == last'.results
        IN  /\ res.added + res.duplicates + Len(res.errors) = Len(lines)
            /\ ErrorLines(res) = SelectSeq(lines, Malformed)
            /\ \A i \in 1..Len(res.errors) :
                  res.errors[i].line # <<>> /\ res.errors[i].error # NoError
C17_ClassifiedExactlyOnce == [][C17_EveryLineClassified]_vars

C17_Witness ==
    /\ last.op = "bulkAddPairs" /\ last.error = NoError
    /\ Cardinality(Breaks(pending.pairsText)) = 3
    /\ Len(NonBlankLines(pending.pairsText)) = 3
    /\ ~IsPair(NonBlankLines(pending.pairsText)[1])
    /\ IsPair(NonBlankLines(pending.pairsText)[2])
    /\ Len(last.results.errors) = 2
    /\ last.results.added + last.results.duplicates = 1

\* C18: ids are never used twice. The sequence of a table is never below an id
\* of the table and never goes down, and a row that appears has an id above
\* the sequence, that is above every id given out before, also to rows deleted
\* since; so an id, once its row is deleted, never refers to a row again, and
\* an id that stays refers to the same row.
C18_IdsWithinSequence ==
    /\ \A m \in maps : m.id \in 1..seqMaps
    /\ \A a \in accounts : a.id \in 1..seqAccounts
C18_FreshIds ==
    /\ seqMaps' >= seqMaps /\ seqAccounts' >= seqAccounts
    /\ \A m \in maps' \ maps : m.id > seqMaps
    /\ \A a \in accounts' \ accounts : a.id > seqAccounts
    /\ \A m1, m2 \in maps' : m1.id = m2.id => m1 = m2
    /\ \A a1, a2 \in accounts' : a1.id = a2.id => a1 = a2
C18_IdsNeverReused == [](C18_IdsWithinSequence) /\ [][C18_FreshIds]_vars

C18_Witness ==
    /\ last.op \in AddOps /\ last.error = NoError
    /\ seqMaps = 2 /\ MapIds = {2}
    /\ seqAccounts = 2 /\ {a.id : a \in accounts} = {2}

====
